---- MODULE Spec2Model ----
(***************************************************************************)
(* Raycast -> After Effects bridge.                                        *)
(*                                                                         *)
(* Two execution contexts share only the filesystem:                       *)
(*   - the producer (Raycast extension): queueCommand, runOnDemand;        *)
(*   - the consumer: the script text returned by getUnifiedBridgeCode,     *)
(*     which the host (After Effects) runs at startup; it sweeps the queue *)
(*     directory once and schedules rbProcess as a repeating task.         *)
(*                                                                         *)
(* Time is counted in units of TimeUnit milliseconds (6 minutes): a file   *)
(* written one unit ago is older than maxAge, one written now is not.      *)
(***************************************************************************)
EXTENDS Integers, Sequences, FiniteSets, TLC

(* ------------------------------ bounds -------------------------------- *)
MaxTime == 1
MaxRand == 1
MaxQueue == 2
MaxItems == 2
MaxLen == 4
MaxOut == 5
MaxRuns == 2
MaxCalls == 4
MaxProcs == 3

TimeUnit == 6 * 60 * 1000

(* ------------------------- program constants -------------------------- *)
maxAge == 5 * 60 * 1000
deadlineMs == 5000
pollMs == 150
RecentMax == 10

(* ------------------------------- state -------------------------------- *)
VARIABLES
  now,      \* wall clock, in TimeUnit
  dir,      \* the queue directory: file name -> [content, modified]
  host,     \* "off" | "on": the host process; "on" = startup script has run
  ui,       \* what app.project / activeItem / selectedLayers report
  bins,     \* number of folder items named 'Audio' in the project
  footage,  \* media path -> number of footage items imported from it
  layers,   \* media path -> number of layers of the active comp using it
  effects,  \* queue file name -> times its side effect completed in the host
  last,     \* the operation that produced this state and what it did
  jobs,     \* the jobs directory and the inbox: the set of file names in them
  rod,      \* the runOnDemand call in progress, or the last one finished
  fsys,     \* the After Effects preference trees installUnifiedBridge writes to
  inst,     \* the results of the installUnifiedBridge runs so far
  calc,     \* the last application of a pure function: its input and output
  wr,       \* the writeFileSync of queueCommand in progress, as a reader sees it
  ru,       \* the recently-used list: React state, LocalStorage, batch in progress
  pl        \* the audio preview: playerRef, currentlyPlaying, processes, timers

\* the bridge proper, and the state of the installer and of the pure functions
bridgeVars == <<now, dir, host, ui, bins, footage, layers, effects, last, jobs, rod>>
sideVars == <<fsys, inst, calc, wr, ru, pl>>

vars == <<now, dir, host, ui, bins, footage, layers, effects, last, jobs, rod,
          fsys, inst, calc, wr, ru, pl>>

(* ---------------------------- file contents --------------------------- *)
IsSpace(c) == c \in {" ", "\n"}

\* String(content).replace(/\s+$/, '')
RECURSIVE Strip(_)
Strip(s) ==
  IF s = <<>> THEN <<>>
  ELSE IF IsSpace(s[Len(s)]) THEN Strip(SubSeq(s, 1, Len(s) - 1))
  ELSE s

\* the contents a caller may pass to queueCommand
Payloads == {<<>>, <<"a">>}

\* the media paths the host can be asked to import
Paths == {Strip(p) : p \in Payloads} \ {<<>>}

(* ------------------------ encoding of a command ----------------------- *)
\* fs.writeFileSync(cmdFile, content + "\n", ...): what queueCommand writes
Encode(content) == content \o <<"\n">>

\* f.read() followed by String(content).replace(/\s+$/, ''): what rbProcess
\* obtains from the file
Decode(raw) == Strip(raw)

RECURSIVE SeqsUpTo(_, _)
SeqsUpTo(S, n) ==
  IF n = 0 THEN {<<>>}
  ELSE LET shorter == SeqsUpTo(S, n - 1)
       IN  shorter \cup {Append(q, c) : q \in shorter, c \in S}

\* the contents queueCommand may be given: audio paths and script texts over
\* a letter, a blank and a line break
Contents == SeqsUpTo({"a", " ", "\n"}, MaxLen)

(* --------------------------- liveness probe --------------------------- *)
\* String.prototype.trim()
RECURSIVE StripLeft(_)
StripLeft(s) ==
  IF s = <<>> THEN <<>>
  ELSE IF IsSpace(s[1]) THEN StripLeft(Tail(s))
  ELSE s

Trim(s) == StripLeft(Strip(s))

\* what the osascript child process may do: fail to spawn ('error' event) or
\* close with an exit status after printing stdout
ProbeOutcomes ==
  [spawn : {"ok", "error"}, code : {0, 1},
   stdout : SeqsUpTo({"t", "r", "u", "e", "\n"}, MaxOut)]

\* the promise around spawn: resolve(stdout) on close with code 0, reject on
\* any other code and on 'error'
ProbePromise(o) ==
  IF o.spawn = "error" \/ o.code # 0
  THEN [rejected |-> TRUE, value |-> <<>>]
  ELSE [rejected |-> FALSE, value |-> o.stdout]

\* (mutant) no catch around the promise: a rejection escapes, and the status
\* is not looked at
isAERunningUncaught(o) ==
  [threw |-> o.spawn = "error", value |-> Trim(o.stdout) = <<"t", "r", "u", "e">>]

\* isAERunning, given what the child process does:
\*   try { ...; return result.trim() === "true"; } catch { return false; }
isAERunningOutcome(o) ==
  LET result == ProbePromise(o)
  IN  IF result.rejected THEN [threw |-> FALSE, value |-> FALSE]
      ELSE [threw |-> FALSE, value |-> Trim(result.value) = <<"t", "r", "u", "e">>]

(* ----------------------------- file names ----------------------------- *)
\* `${Date.now()}-${Math.random().toString(36).slice(2)}.${fileExtension}`
FileName(stamp, rnd, ext) == [stamp |-> stamp, rnd |-> rnd, ext |-> ext]

\* queue + '/STOP_BRIDGE.txt'
StopName == [stamp |-> 0, rnd |-> 0, ext |-> "txt"]

Exts == {"cmd", "jsx"}

\* queue.getFiles('*.cmd'), queue.getFiles('*.jsx'), queue.getFiles('*')
GetFiles(d, ext) == {n \in DOMAIN d : n.ext = ext}
GetAllFiles(d) == DOMAIN d

QueueFiles(d) == GetFiles(d, "cmd") \cup GetFiles(d, "jsx")

\* now - f.modified.getTime()
Age(d, n, t) == (t - d[n].modified) * TimeUnit

Without(d, gone) == [n \in (DOMAIN d) \ gone |-> d[n]]

\* the orders in which getFiles may return a set of files
RECURSIVE Listings(_)
Listings(S) ==
  IF S = {} THEN {<<>>}
  ELSE UNION {{<<n>> \o rest : rest \in Listings(S \ {n})} : n \in S}

(* ------------------------- the host's project ------------------------- *)
UIStates == {"noproject", "noitem", "comp", "selected"}

\* app.project
ProjectOpen(u) == u # "noproject"
\* prj.activeItem instanceof CompItem
ActiveIsComp(u) == u \in {"comp", "selected"}
\* (mutant) the selection is never consulted
HasSelectionIgnored(u) == FALSE

\* comp.selectedLayers && comp.selectedLayers.length > 0
HasSelection(u) == u = "selected"

NoItems == [p \in Paths |-> 0]

Count(fn, k) == IF k \in DOMAIN fn THEN fn[k] ELSE 0
Bump(fn, k) == [x \in (DOMAIN fn) \cup {k} |-> IF x = k THEN Count(fn, k) + 1 ELSE fn[x]]

(* --------------------- consumer: rbCleanupOldFiles -------------------- *)
\* (mutant) the sweep removes every file, whatever its age
rbCleanupAllFiles(d, t, rmOk) ==
  Without(d, {n \in GetAllFiles(d) : rmOk})

\* every file of the queue directory older than maxAge is removed;
\* rmOk: whether f.remove() succeeds on this filesystem
rbCleanupOldFiles(d, t, rmOk) ==
  IF GetAllFiles(d) = {} THEN d
  ELSE Without(d, {n \in GetAllFiles(d) : Age(d, n, t) > maxAge /\ rmOk})

(* ------------------------- consumer: rbProcess ------------------------ *)
\* what the host and the filesystem answer during one tick
\* (readOk: f.open/f.read; import: prj.importFile; add: comp.layers.add and
\* layer.startTime; eval: eval(content); rmOk: f.remove()). A tick consults
\* nothing after the first failure, so one failure per tick covers every run.
AllOk == [readOk |-> TRUE, import |-> "ok", add |-> "ok", eval |-> "ok", rmOk |-> TRUE]

Envs ==
  {AllOk, [AllOk EXCEPT !.rmOk = FALSE], [AllOk EXCEPT !.readOk = FALSE],
   [AllOk EXCEPT !.eval = "throw"]}
  \cup {[AllOk EXCEPT !.import = x] : x \in {"null", "throw"}}
  \cup {[AllOk EXCEPT !.add = x] : x \in {"addthrow", "timethrow"}}

NoObs == [read |-> "", import |-> "", add |-> "", eval |-> "", rm |-> "",
          write |-> ""]

\* the tick's working state: the filesystem and project it acts on, the
\* script's `ok`, and a record of what the tick did (files selected, read,
\* dispatched, removed), what the environment answered and where it returned
TickState(d, b, fo, la, ef) ==
  [dir |-> d, bins |-> b, footage |-> fo, layers |-> la, effects |-> ef,
   ok |-> FALSE, sel |-> {}, read |-> {}, dispatched |-> {}, removed |-> {},
   exit |-> "", obs |-> NoObs, undo |-> 0, thrown |-> FALSE, over |-> FALSE]

\* allFiles.push({file:..., type:'cmd'}) / ({file:..., type:'jsx'})
Items(list, type) == [i \in 1..Len(list) |-> [file |-> list[i], type |-> type]]

\* (mutant) every listed file is processed in the same tick
BatchAll(allFiles) == allFiles

\* var item = allFiles[0]: only one file is processed per tick
Batch(allFiles) == <<allFiles[1]>>

\* (mutant) the file is removed whether or not the dispatch succeeded
RemoveRegardless(st, f, env) ==
  IF env.rmOk
  THEN [st EXCEPT !.dir = Without(st.dir, {f}), !.removed = @ \cup {f},
                  !.obs.rm = "ok"]
  ELSE [st EXCEPT !.obs.rm = "fail"]

\* if (ok) { try{f.remove();}catch(_){} }
RemoveIfOk(st, f, env) ==
  IF ~st.ok THEN st
  ELSE IF env.rmOk
       THEN [st EXCEPT !.dir = Without(st.dir, {f}), !.removed = @ \cup {f},
                       !.obs.rm = "ok"]
       ELSE [st EXCEPT !.obs.rm = "fail"]

\* the loop looking for a FolderItem named 'Audio';
\* if (!bin){ bin = prj.items.addFolder('Audio'); }
EnsureBin(b) == IF b = 0 THEN 1 ELSE b

\* (mutant) the footage is imported but no layer is added
AddLayerSkipped(la, content) == la

\* var layer = comp.layers.add(footage)
AddLayer(la, content) == Bump(la, content)

\* the 'cmd' branch: import the media, file it under 'Audio', add a layer
DispatchCmd(st, f, content, u, env) ==
  LET s1 == [st EXCEPT !.dispatched = @ \cup {f}, !.undo = @ + 1,
                       !.obs.import = env.import]
  IN  CASE env.import = "throw" -> [s1 EXCEPT !.thrown = TRUE, !.exit = "threw"]
        [] env.import = "null"  -> [s1 EXCEPT !.undo = @ - 1, !.exit = "done"]
        [] env.import = "ok"    ->
             LET s2 == [s1 EXCEPT
                          !.footage = Bump(@, content),
                          !.effects = Bump(@, f),
                          !.bins = EnsureBin(@),
                          !.over = Count(s1.footage, content) >= MaxItems
                                   \/ Count(s1.effects, f) >= MaxItems]
             IN  IF ~ActiveIsComp(u)
                 THEN [s2 EXCEPT !.undo = @ - 1, !.exit = "done"]
                 ELSE LET s3 == [s2 EXCEPT !.obs.add = env.add]
                          over3 == s2.over \/ Count(s2.layers, content) >= MaxItems
                      IN  CASE env.add = "addthrow" ->
                                 [s3 EXCEPT !.thrown = TRUE, !.exit = "threw"]
                            [] env.add = "timethrow" ->
                                 [s3 EXCEPT !.layers = AddLayer(@, content),
                                            !.over = over3, !.thrown = TRUE,
                                            !.exit = "threw"]
                            [] env.add = "ok" ->
                                 [s3 EXCEPT !.layers = AddLayer(@, content),
                                            !.over = over3, !.ok = TRUE,
                                            !.undo = @ - 1, !.exit = "done"]

\* the 'jsx' branch: eval(content)
DispatchJsx(st, f, content, env) ==
  LET s1 == [st EXCEPT !.dispatched = @ \cup {f}, !.undo = @ + 1,
                       !.obs.eval = env.eval]
  IN  CASE env.eval = "throw" -> [s1 EXCEPT !.thrown = TRUE, !.exit = "threw"]
        [] env.eval = "ok" ->
             [s1 EXCEPT !.effects = Bump(@, f),
                        !.over = Count(s1.effects, f) >= MaxItems,
                        !.ok = TRUE, !.undo = @ - 1, !.exit = "done"]

\* (mutant) nothing is caught: what a step of the tick throws leaves rbProcess
CatchNothing(st) == st

\* catch(e) { ok=false; } around the dispatch; catch(e) { return; } around
\* the read
Catch(st) == IF st.thrown THEN [st EXCEPT !.thrown = FALSE, !.ok = FALSE] ELSE st

\* read the file, dispatch by type, remove the file if ok
ProcessItem(st, item, u, env) ==
  LET f == item.file
      s0 == [st EXCEPT !.sel = @ \cup {f}, !.ok = FALSE]
  IN  IF ~env.readOk
      THEN Catch([s0 EXCEPT !.obs.read = "fail", !.thrown = TRUE,
                            !.exit = "readfail"])
      ELSE LET content == Decode(s0.dir[f].content)
               s1 == [s0 EXCEPT !.read = @ \cup {f}, !.obs.read = "ok"]
           IN  IF content = <<>> THEN [s1 EXCEPT !.exit = "nocontent"]
               ELSE IF ~ProjectOpen(u) THEN [s1 EXCEPT !.exit = "noproject"]
               ELSE IF item.type = "cmd"
                    THEN RemoveIfOk(Catch(DispatchCmd(s1, f, content, u, env)), f, env)
                    ELSE RemoveIfOk(Catch(DispatchJsx(s1, f, content, env)), f, env)

RECURSIVE ProcessItems(_, _, _, _)
ProcessItems(batch, st, u, env) ==
  IF batch = <<>> THEN st
  ELSE ProcessItems(Tail(batch), ProcessItem(st, Head(batch), u, env), u, env)

\* one tick of the scheduled task, on tick state st; cmdFiles and jsxFiles are
\* the two directory listings
rbProcessTick(st, u, cmdFiles, jsxFiles, env) ==
  IF StopName \in DOMAIN st.dir THEN [st EXCEPT !.exit = "stop"]
  ELSE IF ProjectOpen(u) /\ ActiveIsComp(u) /\ HasSelection(u)
       THEN [st EXCEPT !.exit = "selection"]
  ELSE LET allFiles == Items(cmdFiles, "cmd") \o Items(jsxFiles, "jsx")
       IN  IF Len(allFiles) = 0 THEN [st EXCEPT !.exit = "empty"]
           ELSE ProcessItems(Batch(allFiles), st, u, env)

(* ------------------------------ actions ------------------------------- *)
\* what an operation leaves in `last`: its name, the queue directory it
\* started from, and (for a tick) what the tick did
Did(op, pre) ==
  [op |-> op, pre |-> pre, sel |-> {}, read |-> {}, dispatched |-> {},
   removed |-> {}, exit |-> "", obs |-> NoObs, undo |-> 0, escaped |-> FALSE,
   ret |-> TRUE, phase |-> 0, retry |-> {}]

\* a tick whose read failed or whose dispatch threw
Failed(l) == l.op = "tick" /\ (l.exit = "readfail" \/ l.exit = "threw")

Restrict(fn, S) == [x \in (DOMAIN fn) \cap S |-> fn[x]]

(* ----------------------- producer: runOnDemand ------------------------ *)
\* OnDemandCommand
Commands ==
  {[action |-> "import_audio", arg |-> p] : p \in Paths}
  \cup {[action |-> "run_jsx_text", arg |-> <<"a">>],
        [action |-> "run_jsx_file", arg |-> <<"a">>]}

\* `rb_${requestId}_direct.jsx`, `rb_${requestId}.json`, `rb_${requestId}.done.json`
\* with requestId = `${Date.now()}-${Math.random().toString(36).slice(2)}`
JobFile(stamp, rnd, kind) == [stamp |-> stamp, rnd |-> rnd, kind |-> kind]

NoCommand == [action |-> "", arg |-> <<>>]

\* requestId = `${Date.now()}-${Math.random().toString(36).slice(2)}`
RequestId(stamp, rnd) == [stamp |-> stamp, rnd |-> rnd]
NoId == RequestId(0, 0)

\* cmdPath, artifactPath, artifactPath + ".tmp", and inbox/cmd.json holding
\* the payload of request id
Descriptor(id) == JobFile(id.stamp, id.rnd, "json")
Artifact(id) == JobFile(id.stamp, id.rnd, "done.json")
ArtifactTmp(id) == JobFile(id.stamp, id.rnd, "done.json.tmp")
Inbox(id) == JobFile(id.stamp, id.rnd, "inbox/cmd.json")

\* fs.writeFileSync(inboxCmdTmp, ...); fs.renameSync(inboxCmdTmp, inboxCmdPath):
\* the one inbox file now holds this request
WriteInbox(js, id) == {f \in js : f.kind # "inbox/cmd.json"} \cup {Inbox(id)}

\* the files of the jobs directory that belong to request id
FilesOf(js, id) == js \cap {Descriptor(id), Artifact(id), ArtifactTmp(id)}

\* the read of the await loop: artifactPath, else artifactPath + ".tmp",
\* else 'Artifact not found'
ReadArtifact(js, id) ==
  IF Artifact(id) \in js THEN "final"
  ELSE IF ArtifactTmp(id) \in js THEN "tmp"
  ELSE ""

\* try { fs.unlinkSync(cmdPath); fs.unlinkSync(artifactPath);
\*       try { fs.unlinkSync(artifactPath + ".tmp"); } catch {} } catch {}
\* unlinkSync of a file that is not there throws, and the rest is skipped
SuccessCleanup(js, id) ==
  IF Descriptor(id) \notin js THEN js
  ELSE IF Artifact(id) \notin js THEN js \ {Descriptor(id)}
  ELSE js \ {Descriptor(id), Artifact(id), ArtifactTmp(id)}

\* (mutant) the descriptor is left behind on timeout
TimeoutCleanupNone(js, id) == js

\* try { fs.unlinkSync(cmdPath); } catch {} before the throw, and again in
\* the outer catch
TimeoutCleanup(js, id) == js \ {Descriptor(id)}

\* a toast shown to the user
Toast(style, title) == [style |-> style, title |-> title]

\* the toast sendToAfterEffects opens, and what it turns it into once
\* sendViaBridge has returned
Sending == Toast("animated", "Sending to After Effects...")
Queued == Toast("success", "Queued for After Effects")

\* the call in progress. entry: the function the user or caller invoked;
\* outer: sendViaBridge was called by sendToAfterEffects;
\* pc: "idle", "sta-probe" / "svb-probe" / "probe" / "restart-probe" (awaiting
\* the isAERunning of sendToAfterEffects / sendViaBridge / runOnDemand /
\* sendToAfterEffectsViaRestart), "osascript" (awaiting the DoScriptFile
\* call), "done" (returned or thrown; result says which);
\* toasts: the toasts shown; launched: a step of the call started the host;
\* saidRunning: what the last probe answered; opened: `open -b ... -r` issued;
\* osa: how the DoScriptFile child of the direct path ended ("exit0",
\* "nonzero", "error" for a failed spawn); scriptOk: the script did in the
\* host what it was written to do; tmp: the add-audio.jsx that
\* sendToAfterEffects and sendToAfterEffectsViaRestart write in a fresh
\* ae-audio-* directory ("written", then "removed" once unlinked)
Idle ==
  [pc |-> "idle", cmd |-> NoCommand, jobsBefore |-> {}, hostAtProbe |-> "",
   jsxPath |-> {}, result |-> "", entry |-> "", outer |-> FALSE, toasts |-> {},
   launched |-> FALSE, saidRunning |-> FALSE, opened |-> FALSE,
   id |-> NoId, elapsed |-> 0, awaited |-> FALSE, readFrom |-> "",
   jobsAtExit |-> {}, osa |-> "", scriptOk |-> FALSE, tmp |-> ""]

\* the call returns or throws: sendToAfterEffects, when it had called
\* sendViaBridge, turns its toast into "Queued for After Effects" whatever
\* sendViaBridge did; shown: the toasts shown on the way out; both returns
\* of sendToAfterEffects are preceded by
\*   try { fs.unlinkSync(tmpFile); fs.rmdirSync(tmpDir); } catch {}
Finish(r, result, shown) ==
  [r EXCEPT !.pc = "done", !.result = result,
            !.toasts = (IF r.outer THEN (@ \ {Sending}) \cup {Queued} ELSE @) \cup shown,
            !.tmp = IF r.entry = "sendToAfterEffects" /\ @ = "written"
                    THEN "removed" ELSE @]

\* the caller's own script, passed as cmd.path of a run_jsx_file command
UserScript == JobFile(0, 0, "user.jsx")

\* (mutant) the script that was run is unlinked whoever wrote it
CleanupAlways(cmd, jsxPath) == jsxPath

\* if (cmd.action !== "run_jsx_file") { try { fs.unlinkSync(jsxPath); } catch {} }
\* the files unlinked after the automation call
Cleanup(cmd, jsxPath) == IF cmd.action # "run_jsx_file" THEN jsxPath ELSE {}

\* (mutant) only run_jsx_text takes the fast path
FastPathTextOnly(cmd) == cmd.action = "run_jsx_text"

\* if (cmd.action === "run_jsx_text" || cmd.action === "run_jsx_file" ||
\*     cmd.action === "import_audio"): the fast path, which returns or throws
\* before the inbox code is reached
FastPath(cmd) == cmd.action \in {"run_jsx_text", "run_jsx_file", "import_audio"}

\* (mutant) the restart fallback goes ahead whatever the probe says
RestartRefusesNever(running) == FALSE

\* sendToAfterEffectsViaRestart: if (running) { showToast(Failure ...); return; }
RestartRefuses(running) == running

\* (mutant) a failed probe is taken for a running host
isAERunningFailOpen(h, probeOk) == ~probeOk \/ h = "on"

\* isAERunning: true only if the probe exits 0 and prints 'true'
isAERunning(h, probeOk) == probeOk /\ h = "on"

(* ------------------ installer: installUnifiedBridge ------------------- *)
\* ~/Library/Preferences/Adobe/After Effects and
\* ~/Library/Application Support/Adobe/After Effects
Bases == {"Preferences", "Application Support"}

\* versions = ["25.0", "24.0", "23.0"]
SeedVersions == {"25.0", "24.0", "23.0"}

\* an entry of a base directory: nothing, a plain file, a directory, or a
\* directory nothing can be created in
Kinds == {"absent", "file", "dir", "locked"}

\* a base directory: "ok", "unreadable" (readdirSync throws) or "readonly"
\* (nothing can be created directly in it; a base that does not exist and
\* cannot be created behaves the same); its entries; and the files of each
\* <version>/Scripts/Startup directory
Trees ==
  [attr : {"ok", "unreadable", "readonly"},
   tree : [SeedVersions -> Kinds],
   scripts : {[v \in SeedVersions |-> {}]}]

Filesystems == [Bases -> Trees]

NoFsys ==
  [b \in Bases |-> [attr |-> "ok", tree |-> [v \in SeedVersions |-> "absent"],
                    scripts |-> [v \in SeedVersions |-> {}]]]

\* fs.statSync(path.join(base, d)).isDirectory()
IsDirectory(k) == k \in {"dir", "locked"}

\* fs.readdirSync(base).filter(...), [] when it throws
ReadVersions(t) ==
  IF t.attr = "unreadable" THEN {}
  ELSE {v \in SeedVersions : IsDirectory(t.tree[v])}

\* try { fs.mkdirSync(path.join(base, v), { recursive: true }); } catch {}
\* for each seeded version
SeedTree(t) ==
  [t EXCEPT !.tree = [v \in SeedVersions |->
                        IF t.tree[v] = "absent" /\ t.attr # "readonly" THEN "dir"
                        ELSE t.tree[v]]]

\* discoverAETargets: for each base, its version directories, or the seeded
\* ones when it has none; and the filesystem it leaves
discoverAETargets(fs) ==
  [b \in Bases |->
     LET versions == ReadVersions(fs[b])
     IN  IF versions = {} THEN [versions |-> SeedVersions, after |-> SeedTree(fs[b])]
         ELSE [versions |-> versions, after |-> fs[b]]]

\* path.join(startupDir, "RaycastBridge.jsx")
TargetName == "RaycastBridge.jsx"

\* fs.mkdirSync(startupDir, { recursive: true }) and fs.writeFileSync succeed
WriteOk(t, v) == t.tree[v] = "dir"

\* for (const target of targets) for (const version of target.versions)
RECURSIVE PairsOf(_)
PairsOf(S) ==
  IF S = {} THEN <<>>
  ELSE LET x == CHOOSE y \in S : TRUE IN <<x>> \o PairsOf(S \ {x})

\* (mutant) a script that is already there is left alone and not counted
InstallOneIfMissing(st, b, v) ==
  IF WriteOk(st.fs[b], v) /\ TargetName \notin st.fs[b].scripts[v]
  THEN [st EXCEPT !.fs[b].scripts[v] = @ \cup {TargetName},
                  !.installs = @ + 1,
                  !.written = @ \cup {<<b, v>>}]
  ELSE st

\* try { mkdirSync(startupDir); writeFileSync(targetPath, bridgeCode); installs++ } catch {}
InstallOne(st, b, v) ==
  IF WriteOk(st.fs[b], v)
  THEN [st EXCEPT !.fs[b].scripts[v] = @ \cup {TargetName},
                  !.installs = @ + 1,
                  !.written = @ \cup {<<b, v>>}]
  ELSE st

RECURSIVE InstallAll(_, _)
InstallAll(st, pairs) ==
  IF pairs = <<>> THEN st
  ELSE InstallAll(InstallOne(st, Head(pairs)[1], Head(pairs)[2]), Tail(pairs))

\* (mutant) success is reported whatever the count
InstallResultAlways(installs) ==
  [success |-> TRUE, installCount |-> installs]

\* if (installs === 0) return { success: false, installCount: 0, ... };
\* return { success: true, installCount: installs, ... }
InstallResult(installs) ==
  IF installs = 0 THEN [success |-> FALSE, installCount |-> 0]
  ELSE [success |-> TRUE, installCount |-> installs]

\* the version directories of every base
VersionDirs(fs) == {<<b, v>> \in Bases \X SeedVersions : IsDirectory(fs[b].tree[v])}

\* one run of installUnifiedBridge on filesystem fs: the filesystem it leaves,
\* what it returns, and the (base, version) pairs it wrote
InstallRun(fs) ==
  LET targets == discoverAETargets(fs)
      seeded == [b \in Bases |-> targets[b].after]
      pairs == PairsOf({<<b, v>> \in Bases \X SeedVersions : v \in targets[b].versions})
      st == InstallAll([fs |-> seeded, installs |-> 0, written |-> {}], pairs)
  IN  [fs |-> st.fs, result |-> InstallResult(st.installs), written |-> st.written,
       tried |-> {pairs[i] : i \in 1..Len(pairs)}]

(* --------------------------- initial state ---------------------------- *)
\* no pure function applied
NoCalc == [fn |-> "", arg |-> <<>>, done |-> FALSE, out |-> <<>>]

\* useState<string[]>([]) and an empty LocalStorage: recentlyUsed (state),
\* the stored list, the items a running sendAllFilteredToAE has still to
\* record, the recentlyUsed its closure holds, and the paths passed to
\* addToRecentlyUsed so far
NoRecent == [state |-> <<>>, stored |-> <<>>, batch |-> <<>>, closure |-> <<>>,
             calls |-> <<>>]

\* useRef(null), useState(null): playerRef.current (0: null, else the number
\* of a process), currentlyPlaying ("": null), the afplay processes spawned so
\* far (number -> [path, st], st "running", "killed": signalled and its 'exit'
\* event not yet delivered, or "exited"), the pending 100 ms timers of the
\* autoplay effect (the paths they will play), stopTimerRef.current set, and
\* the 8 s timers that stopTimerRef no longer refers to
NoPlayer == [player |-> 0, playing |-> "", procs |-> <<>>, starts |-> <<>>,
             stopTimer |-> FALSE, orphans |-> 0]

\* no write in progress
NoWrite == [busy |-> FALSE, name |-> StopName, whole |-> <<>>, rest |-> <<>>]

SideInit ==
  /\ fsys = NoFsys
  /\ inst = <<>>
  /\ calc = NoCalc
  /\ wr = NoWrite
  /\ ru = NoRecent
  /\ pl = NoPlayer

BridgeInit ==
  /\ now = 0
  /\ dir = <<>>
  /\ host = "off"
  /\ ui = "noitem"
  /\ bins = 0
  /\ footage = NoItems
  /\ layers = NoItems
  /\ effects = <<>>
  /\ last = Did("init", <<>>)
  /\ jobs = {}
  /\ rod = Idle

Init == BridgeInit /\ SideInit

\* the host starts and runs the installed startup script:
\*   rbCleanupOldFiles(); app.scheduleTask('rbProcess()', 5000, true)
HostStart ==
  /\ host = "off"
  /\ \E rmOk \in BOOLEAN :
       dir' = rbCleanupOldFiles(dir, now, rmOk)
  /\ host' = "on"
  /\ ui' = "noitem"
  /\ effects' = Restrict(effects, DOMAIN dir')
  /\ last' = Did("startup", dir)
  /\ UNCHANGED <<now, bins, footage, layers, jobs, rod>>
  /\ UNCHANGED sideVars

\* the host exits; its project and the scheduled task go with it
HostExit ==
  /\ host = "on"
  /\ host' = "off"
  /\ ui' = "noitem"
  /\ bins' = 0
  /\ footage' = NoItems
  /\ layers' = NoItems
  /\ last' = Did("env", dir)
  /\ UNCHANGED <<now, dir, effects, jobs, rod>>
  /\ UNCHANGED sideVars

\* the task scheduled by app.scheduleTask('rbProcess()', 5000, true) fires,
\* in an environment that answers as one of envs
Tick(envs) ==
  /\ host = "on"
  /\ \E cmdFiles \in Listings(GetFiles(dir, "cmd")),
        jsxFiles \in Listings(GetFiles(dir, "jsx")),
        env \in envs :
       LET r == rbProcessTick(TickState(dir, bins, footage, layers, effects),
                              ui, cmdFiles, jsxFiles, env)
       IN  /\ ~r.over
           /\ dir' = r.dir
           /\ bins' = r.bins
           /\ footage' = r.footage
           /\ layers' = r.layers
           /\ effects' = Restrict(r.effects, DOMAIN r.dir)
           /\ last' = [Did("tick", dir) EXCEPT
                         !.sel = r.sel, !.read = r.read,
                         !.dispatched = r.dispatched, !.removed = r.removed,
                         !.exit = r.exit, !.obs = r.obs, !.undo = r.undo,
                         !.escaped = r.thrown,
                         !.phase = IF last.op = "tick" THEN 1 - last.phase ELSE 0,
                         !.retry = IF Failed(last) THEN r.dispatched \cap last.sel
                                   ELSE {}]
  /\ UNCHANGED <<now, host, ui, jobs, rod>>
  /\ UNCHANGED sideVars

rbProcess == Tick(Envs)

\* a tick during which neither the filesystem nor the host fails
rbProcessNoFault == Tick({AllOk})

\* producer: queueCommand(content, fileExtension, description);
\* ioOk: whether mkdirSync and writeFileSync succeed. A failure is caught
\* inside (catch (e) { console.error(...); return false; }): nothing escapes
\* to the caller, whose promise resolves to false
queueCommand(content, fileExtension) ==
  \E rnd \in 1..MaxRand, ioOk \in BOOLEAN :
    LET fileName == FileName(now, rnd, fileExtension)
        written == [n \in (DOMAIN dir) \cup {fileName} |->
                      IF n = fileName
                      THEN [content |-> Encode(content), modified |-> now]
                      ELSE dir[n]]
    IN  /\ Cardinality(QueueFiles(written)) <= MaxQueue
        /\ dir' = IF ioOk THEN written ELSE dir
        /\ effects' = IF ioOk THEN Restrict(effects, (DOMAIN effects) \ {fileName})
                      ELSE effects
        /\ last' = [Did("queueCommand", dir) EXCEPT
                      !.ret = ioOk, !.escaped = FALSE,
                      !.obs.write = IF ioOk THEN "ok" ELSE "fail"]
        /\ UNCHANGED <<now, host, ui, bins, footage, layers, jobs, rod>>
        /\ UNCHANGED sideVars

Submit == \E content \in Payloads, ext \in Exts : queueCommand(content, ext)

\* the operator creates / removes STOP_BRIDGE.txt in the queue directory
OperatorStop ==
  /\ StopName \notin DOMAIN dir
  /\ dir' = [n \in (DOMAIN dir) \cup {StopName} |->
               IF n = StopName THEN [content |-> <<>>, modified |-> now] ELSE dir[n]]
  /\ last' = Did("operator", dir)
  /\ UNCHANGED <<now, host, ui, bins, footage, layers, effects, jobs, rod>>
  /\ UNCHANGED sideVars

OperatorResume ==
  /\ StopName \in DOMAIN dir
  /\ dir' = Without(dir, {StopName})
  /\ last' = Did("operator", dir)
  /\ UNCHANGED <<now, host, ui, bins, footage, layers, effects, jobs, rod>>
  /\ UNCHANGED sideVars

\* the user opens or closes a project or composition, selects or deselects layers
UserAction ==
  /\ host = "on"
  /\ \E u \in UIStates \ {ui} : ui' = u
  /\ last' = Did("env", dir)
  /\ UNCHANGED <<now, dir, host, bins, footage, layers, effects, jobs, rod>>
  /\ UNCHANGED sideVars

\* time passes
Advance ==
  /\ now < MaxTime
  /\ now' = now + 1
  /\ last' = Did("env", dir)
  /\ UNCHANGED <<dir, host, ui, bins, footage, layers, effects, jobs, rod>>
  /\ UNCHANGED sideVars

\* a caller invokes runOnDemand(cmd): the liveness probe is started
rodCall ==
  /\ rod.pc \in {"idle", "done"}
  /\ \E cmd \in Commands :
       rod' = [Idle EXCEPT !.pc = "probe", !.cmd = cmd, !.jobsBefore = jobs,
                           !.entry = "runOnDemand"]
  /\ last' = Did("runOnDemand", dir)
  /\ UNCHANGED <<now, dir, host, ui, bins, footage, layers, effects, jobs>>
  /\ UNCHANGED sideVars

\* the probe answers; if the host is reported running, the request id is
\* drawn, the temporary script is written (import_audio, run_jsx_text) and
\* the osascript call is started. ioOk: whether mkdirSync and writeFileSync
\* succeed; a failed write may leave the file behind, and throws
rodProbe ==
  /\ rod.pc = "probe"
  /\ FastPath(rod.cmd)
  /\ \E probeOk \in BOOLEAN, rnd \in 1..MaxRand, ioOk \in BOOLEAN :
       IF ~isAERunning(host, probeOk)
       THEN /\ rod' = Finish([rod EXCEPT !.hostAtProbe = host, !.saidRunning = FALSE],
                               "not-running", {})
            /\ jobs' = jobs
       ELSE LET direct == JobFile(now, rnd, "direct.jsx")
                temp == IF rod.cmd.action = "run_jsx_file" THEN {} ELSE {direct}
                jsxPath == IF rod.cmd.action = "run_jsx_file" THEN {UserScript}
                           ELSE {direct}
            IN  IF ioOk
                THEN /\ rod' = [rod EXCEPT !.pc = "osascript", !.hostAtProbe = host,
                                           !.saidRunning = TRUE, !.jsxPath = jsxPath]
                     /\ jobs' = jobs \cup temp
                ELSE /\ temp # {}
                     /\ rod' = Finish([rod EXCEPT !.hostAtProbe = host,
                                                  !.saidRunning = TRUE, !.jsxPath = temp],
                                        "io-error", {})
                     /\ \E left \in SUBSET temp : jobs' = jobs \cup left
  /\ last' = Did("runOnDemand", dir)
  /\ UNCHANGED <<now, dir, host, ui, bins, footage, layers, effects>>
  /\ UNCHANGED sideVars

\* the ways the osascript child of the direct path can end: 'close' with
\* code 0, 'close' with another code, 'error' (the spawn failed)
ChildOutcomes == {"exit0", "nonzero", "error"}

\* (mutant) the direct path reports success however the child ended
DirectResultAlwaysOk(osa) == "ok"

\* p.on("close", code => code === 0 ? resolve() : reject(...)); p.on("error",
\* reject); then return { ok: true, ... }, or the rejection is rethrown
DirectResult(osa) == IF osa = "exit0" THEN "ok" ELSE "applescript-failed"

\* the script synthesized for import_audio, run by DoScriptFile in the host
DirectImport(b, fo, la, u, path, importOk) ==
  IF ~ProjectOpen(u) \/ ~importOk THEN [bins |-> b, footage |-> fo, layers |-> la]
  ELSE [bins |-> EnsureBin(b),
        footage |-> Bump(fo, path),
        layers |-> IF ActiveIsComp(u) THEN AddLayer(la, path) ELSE la]

\* osascript: tell application "After Effects" / activate / DoScriptFile.
\* `activate` starts the application when it is not running (launchOk: whether
\* that works), and the started host runs its startup script; osa: how the
\* child ends (exit status 0 takes a host to run the script in; a child that
\* could not be spawned reaches no host); importOk: prj.importFile, or the
\* caller's script, does its work
rodOsascript ==
  /\ rod.pc = "osascript"
  /\ \E osa \in ChildOutcomes, launchOk \in BOOLEAN, importOk \in BOOLEAN, rmOk \in BOOLEAN :
       LET exitOk == osa = "exit0"
           launched == osa # "error" /\ host = "off" /\ launchOk
           h1 == IF launched THEN "on" ELSE host
           d1 == IF launched THEN rbCleanupOldFiles(dir, now, rmOk) ELSE dir
           u1 == IF launched THEN "noitem" ELSE ui
           ran == IF rod.cmd.action = "import_audio" /\ exitOk
                  THEN DirectImport(bins, footage, layers, u1, rod.cmd.arg, importOk)
                  ELSE [bins |-> bins, footage |-> footage, layers |-> layers]
       IN  /\ exitOk => h1 = "on"
           /\ Count(ran.footage, rod.cmd.arg) <= MaxItems
           /\ Count(ran.layers, rod.cmd.arg) <= MaxItems
           /\ host' = h1
           /\ ui' = u1
           /\ dir' = d1
           /\ effects' = Restrict(effects, DOMAIN d1)
           /\ bins' = ran.bins
           /\ footage' = ran.footage
           /\ layers' = ran.layers
           /\ jobs' = IF exitOk THEN jobs \ Cleanup(rod.cmd, rod.jsxPath) ELSE jobs
           /\ rod' = Finish([rod EXCEPT !.launched = launched, !.osa = osa,
                                        !.scriptOk = exitOk /\ importOk
                                                      /\ (rod.cmd.action = "import_audio"
                                                            => ProjectOpen(u1))],
                              DirectResult(osa), {})
           /\ last' = Did("runOnDemand", dir)
  /\ UNCHANGED now
  /\ UNCHANGED sideVars

\* the user picks "Send via Bridge": sendViaBridge(filePath) starts its probe
sendViaBridge ==
  /\ rod.pc \in {"idle", "done"}
  /\ \E p \in Paths :
       rod' = [Idle EXCEPT !.pc = "svb-probe", !.entry = "sendViaBridge",
                           !.cmd = [action |-> "import_audio", arg |-> p],
                           !.jobsBefore = jobs]
  /\ last' = Did("sendViaBridge", dir)
  /\ UNCHANGED <<now, dir, host, ui, bins, footage, layers, effects, jobs>>
  /\ UNCHANGED sideVars

\* the probe of sendViaBridge answers: a failure toast and return, or the
\* window is closed and runOnDemand is called
svbProbe ==
  /\ rod.pc = "svb-probe"
  /\ \E probeOk \in BOOLEAN :
       IF ~isAERunning(host, probeOk)
       THEN rod' = Finish([rod EXCEPT !.saidRunning = FALSE], "not-running",
                          {Toast("failure", "Open After Effects first")})
       ELSE rod' = [rod EXCEPT !.pc = "probe", !.saidRunning = TRUE]
  /\ last' = Did("sendViaBridge", dir)
  /\ UNCHANGED <<now, dir, host, ui, bins, footage, layers, effects, jobs>>
  /\ UNCHANGED sideVars

\* the user picks "Send to After Effects": the toast is opened, the temporary
\* script prepared, and the probe started
sendToAfterEffects ==
  /\ rod.pc \in {"idle", "done"}
  /\ \E p \in Paths :
       rod' = [Idle EXCEPT !.pc = "sta-probe", !.entry = "sendToAfterEffects",
                           !.cmd = [action |-> "import_audio", arg |-> p],
                           !.jobsBefore = jobs, !.toasts = {Sending},
                           !.tmp = "written"]
  /\ last' = Did("sendToAfterEffects", dir)
  /\ UNCHANGED <<now, dir, host, ui, bins, footage, layers, effects, jobs>>
  /\ UNCHANGED sideVars

\* the probe of sendToAfterEffects answers: sendViaBridge is called, or a
\* failure toast is shown
staProbe ==
  /\ rod.pc = "sta-probe"
  /\ \E probeOk \in BOOLEAN :
       IF isAERunning(host, probeOk)
       THEN rod' = [rod EXCEPT !.pc = "svb-probe", !.outer = TRUE, !.saidRunning = TRUE]
       ELSE rod' = Finish([rod EXCEPT !.saidRunning = FALSE], "not-running",
                          {Toast("failure", "Open After Effects first")})
  /\ last' = Did("sendToAfterEffects", dir)
  /\ UNCHANGED <<now, dir, host, ui, bins, footage, layers, effects, jobs>>
  /\ UNCHANGED sideVars

\* the user picks the restart fallback: the toast is opened, the one-shot
\* script written, and the probe started
sendToAfterEffectsViaRestart ==
  /\ rod.pc \in {"idle", "done"}
  /\ \E p \in Paths :
       rod' = [Idle EXCEPT !.pc = "restart-probe",
                           !.entry = "sendToAfterEffectsViaRestart",
                           !.cmd = [action |-> "import_audio", arg |-> p],
                           !.jobsBefore = jobs, !.tmp = "written",
                           !.toasts = {Toast("animated", "Restarting After Effects...")}]
  /\ last' = Did("sendToAfterEffectsViaRestart", dir)
  /\ UNCHANGED <<now, dir, host, ui, bins, footage, layers, effects, jobs>>
  /\ UNCHANGED sideVars

\* the probe of the restart fallback answers: it refuses, or issues
\*   open -b com.adobe.AfterEffects --args -r <script>
\* which starts the host when it is not running (launchOk: whether that
\* works); the started host runs its startup script and then the one-shot
\* script, which returns at once for want of a project; 6 s later the
\* temporary script is unlinked and the toast reads "Attempted via restart".
\* The refusal returns at once
restartProbe ==
  /\ rod.pc = "restart-probe"
  /\ \E probeOk \in BOOLEAN, launchOk \in BOOLEAN, rmOk \in BOOLEAN :
       LET running == isAERunning(host, probeOk)
           launched == ~RestartRefuses(running) /\ host = "off" /\ launchOk
       IN  /\ rod' = IF RestartRefuses(running)
                     THEN Finish([rod EXCEPT !.hostAtProbe = host, !.saidRunning = running],
                                 "refused",
                                 {Toast("failure", "Close After Effects and retry")})
                     ELSE Finish([rod EXCEPT !.hostAtProbe = host, !.saidRunning = running,
                                             !.opened = TRUE, !.launched = launched,
                                             !.toasts = {}, !.tmp = "removed"],
                                 "launch-issued",
                                 {Toast("success", "Attempted via restart")})
           /\ host' = IF launched THEN "on" ELSE host
           /\ ui' = IF launched THEN "noitem" ELSE ui
           /\ dir' = IF launched THEN rbCleanupOldFiles(dir, now, rmOk) ELSE dir
           /\ effects' = Restrict(effects, DOMAIN dir')
  /\ last' = Did("sendToAfterEffectsViaRestart", dir)
  /\ UNCHANGED <<now, bins, footage, layers, jobs>>
  /\ UNCHANGED sideVars

\* a caller invokes ensureAfterEffectsRunning: when the probe says the host
\* is not running, osascript `tell application "After Effects" to activate`
\* starts it (launchOk: whether that works)
ensureAfterEffectsRunning ==
  /\ rod.pc \in {"idle", "done"}
  /\ \E probeOk \in BOOLEAN, launchOk \in BOOLEAN, rmOk \in BOOLEAN :
       LET launched == ~isAERunning(host, probeOk) /\ host = "off" /\ launchOk
       IN  /\ host' = IF launched THEN "on" ELSE host
           /\ ui' = IF launched THEN "noitem" ELSE ui
           /\ dir' = IF launched THEN rbCleanupOldFiles(dir, now, rmOk) ELSE dir
           /\ effects' = Restrict(effects, DOMAIN dir')
           /\ rod' = [Idle EXCEPT !.pc = "done", !.entry = "ensureAfterEffectsRunning",
                                  !.hostAtProbe = host, !.launched = launched,
                                  !.saidRunning = isAERunning(host, probeOk),
                                  !.result = "ok"]
  /\ last' = Did("ensureAfterEffectsRunning", dir)
  /\ UNCHANGED <<now, bins, footage, layers, jobs>>
  /\ UNCHANGED sideVars

(* ---------------- producer: runOnDemand, queued path ------------------ *)
\* a caller invokes runOnDemand with a command whose action is none of
\* run_jsx_text, run_jsx_file, import_audio (the types do not allow it; the
\* compiled code does): the fast path is skipped
rodCallQueued ==
  /\ rod.pc \in {"idle", "done"}
  /\ rod' = [Idle EXCEPT !.pc = "probe", !.cmd = [action |-> "other", arg |-> <<>>],
                         !.jobsBefore = jobs, !.entry = "runOnDemand"]
  /\ last' = Did("runOnDemand", dir)
  /\ UNCHANGED <<now, dir, host, ui, bins, footage, layers, effects, jobs>>
  /\ UNCHANGED sideVars

\* the probe answers; if the host is reported running, the request id is
\* drawn, the payload is written to inbox/cmd.json and to the descriptor, and
\* the osascript call that runs aelistener.jsx is started. ioOk: whether the
\* writes succeed; when one throws, the catch unlinks the descriptor
rodProbeQueued ==
  /\ rod.pc = "probe"
  /\ ~FastPath(rod.cmd)
  /\ \E probeOk \in BOOLEAN, rnd \in 1..MaxRand, ioOk \in BOOLEAN :
       LET id == RequestId(now, rnd)
       IN  IF ~isAERunning(host, probeOk)
           THEN /\ rod' = Finish([rod EXCEPT !.hostAtProbe = host, !.saidRunning = FALSE],
                                   "not-running", {})
                /\ jobs' = jobs
           ELSE /\ FilesOf(jobs, id) = {}
                /\ IF ioOk
                   THEN /\ rod' = [rod EXCEPT !.pc = "listener", !.hostAtProbe = host,
                                               !.saidRunning = TRUE, !.id = id]
                        /\ jobs' = WriteInbox(jobs, id) \cup {Descriptor(id)}
                   ELSE /\ rod' = Finish([rod EXCEPT !.hostAtProbe = host,
                                                      !.saidRunning = TRUE, !.id = id],
                                           "io-error", {})
                        /\ jobs' \in {jobs, WriteInbox(jobs, id)}
  /\ last' = Did("runOnDemand", dir)
  /\ UNCHANGED <<now, dir, host, ui, bins, footage, layers, effects>>
  /\ UNCHANGED sideVars

\* osascript: tell application "After Effects" / activate / DoScriptFile
\* aelistener.jsx. exitOk: osascript exits with status 0, and start is taken;
\* otherwise the catch unlinks the descriptor and rethrows
rodListener ==
  /\ rod.pc = "listener"
  /\ \E exitOk \in BOOLEAN, launchOk \in BOOLEAN, rmOk \in BOOLEAN :
       LET launched == host = "off" /\ launchOk
           h1 == IF launched THEN "on" ELSE host
       IN  /\ exitOk => h1 = "on"
           /\ host' = h1
           /\ ui' = IF launched THEN "noitem" ELSE ui
           /\ dir' = IF launched THEN rbCleanupOldFiles(dir, now, rmOk) ELSE dir
           /\ effects' = Restrict(effects, DOMAIN dir')
           /\ IF exitOk
              THEN /\ rod' = [rod EXCEPT !.pc = "await", !.launched = launched,
                                          !.awaited = TRUE, !.elapsed = 0]
                   /\ jobs' = jobs
              ELSE /\ rod' = Finish([rod EXCEPT !.launched = launched, !.jobsAtExit = jobs],
                                      "applescript-failed", {})
                   /\ jobs' = jobs \ {Descriptor(rod.id)}
  /\ last' = Did("runOnDemand", dir)
  /\ UNCHANGED <<now, bins, footage, layers>>
  /\ UNCHANGED sideVars

\* one evaluation of `while (Date.now() - start < deadlineMs)` and of the
\* loop body: read, parse (parseOk: JSON.parse accepts what was read), clean
\* up and return; or sleep(150); or, past the deadline, unlink the descriptor
\* and throw 'Timed out waiting for After Effects'
rodAwait ==
  /\ rod.pc = "await"
  /\ \E parseOk \in BOOLEAN :
       LET from == ReadArtifact(jobs, rod.id)
       IN  IF rod.elapsed < deadlineMs
           THEN IF from # "" /\ parseOk
                THEN /\ rod' = Finish([rod EXCEPT !.readFrom = from, !.jobsAtExit = jobs],
                                        "ok", {})
                     /\ jobs' = SuccessCleanup(jobs, rod.id)
                ELSE /\ rod' = [rod EXCEPT !.elapsed = @ + pollMs]
                     /\ jobs' = jobs
           ELSE /\ rod' = Finish([rod EXCEPT !.jobsAtExit = jobs], "timeout", {})
                /\ jobs' = TimeoutCleanup(jobs, rod.id)
  /\ last' = Did("runOnDemand", dir)
  /\ UNCHANGED <<now, dir, host, ui, bins, footage, layers, effects>>
  /\ UNCHANGED sideVars

\* the listener script in the host (not part of this repository's sources):
\* it may take the descriptor away, write the artifact to its .tmp name and
\* rename it, at any time once the request is written
listenerStep ==
  /\ host = "on"
  /\ rod.id # NoId
  /\ rod.pc \in {"listener", "await", "done"}
  /\ \/ /\ Descriptor(rod.id) \in jobs
        /\ jobs' = jobs \ {Descriptor(rod.id)}
     \/ /\ FilesOf(jobs, rod.id) \cap {Artifact(rod.id), ArtifactTmp(rod.id)} = {}
        /\ jobs' = jobs \cup {ArtifactTmp(rod.id)}
     \/ /\ ArtifactTmp(rod.id) \in jobs
        /\ jobs' = (jobs \ {ArtifactTmp(rod.id)}) \cup {Artifact(rod.id)}
  /\ last' = Did("listener", dir)
  /\ UNCHANGED <<now, dir, host, ui, bins, footage, layers, effects, rod>>
  /\ UNCHANGED sideVars

QueuedNext ==
  \/ rodCallQueued
  \/ rodProbeQueued
  \/ rodListener
  \/ rodAwait
  \/ listenerStep
  \/ HostStart
  \/ HostExit

QueuedSpec == Init /\ [][QueuedNext]_vars

OnDemandNext ==
  \/ rodCall
  \/ rodProbe
  \/ rodOsascript
  \/ sendViaBridge
  \/ svbProbe
  \/ sendToAfterEffects
  \/ staProbe
  \/ sendToAfterEffectsViaRestart
  \/ restartProbe
  \/ ensureAfterEffectsRunning
  \/ HostStart
  \/ HostExit
  \/ UserAction
  \/ Advance

OnDemandSpec == Init /\ [][OnDemandNext]_vars

Next ==
  \/ HostStart
  \/ HostExit
  \/ rbProcess
  \/ Submit
  \/ OperatorStop
  \/ OperatorResume
  \/ UserAction
  \/ Advance

Spec == Init /\ [][Next]_vars

\* The consumer while the host lives, nobody sets the Stop Flag, and neither
\* the filesystem nor the host fails. The task scheduled with repeat=true
\* fires again and again while the host runs, the clock advances, and a host
\* that is not running is eventually started.
LiveNext ==
  \/ HostStart
  \/ rbProcessNoFault
  \/ Submit
  \/ UserAction
  \/ Advance

LiveSpec ==
  Init /\ [][LiveNext]_vars
       /\ WF_vars(HostStart) /\ WF_vars(rbProcessNoFault) /\ WF_vars(Advance)

\* The consumer for as long as the host lives, failures of the filesystem
\* and of the host included: the task scheduled with repeat=true fires again
\* and again while the host runs. (The user leaves the project as the host
\* opened it.)
LoopNext ==
  \/ HostStart
  \/ HostExit
  \/ rbProcess
  \/ Submit

LoopSpec == Init /\ [][LoopNext]_vars /\ WF_vars(rbProcess)

(* ------------------ runOnDemand and the caller's script --------------- *)
\* between two calls, the caller saves the script it will pass as cmd.path
callerWritesScript ==
  /\ rod.pc \in {"idle", "done"}
  /\ UserScript \notin jobs
  /\ jobs' = jobs \cup {UserScript}
  /\ last' = Did("caller", dir)
  /\ UNCHANGED <<now, dir, host, ui, bins, footage, layers, effects, rod>>
  /\ UNCHANGED sideVars

ScriptNext ==
  \/ callerWritesScript
  \/ rodCall
  \/ rodProbe
  \/ rodOsascript
  \/ HostStart
  \/ HostExit

ScriptSpec == Init /\ [][ScriptNext]_vars

(* ---------------- runOnDemand and children that hang ----------------- *)
\* spawn("/usr/bin/osascript", [...]) is called without a timeout and the
\* child is never killed: when the child does not exit, neither 'close' nor
\* 'error' is emitted and the awaited promise stays pending. pc "blocked":
\* the call awaits such a child
childNeverExits ==
  /\ rod.pc \in {"probe", "osascript", "listener"}
  /\ rod' = [rod EXCEPT !.pc = "blocked"]
  /\ last' = Did("runOnDemand", dir)
  /\ UNCHANGED <<now, dir, host, ui, bins, footage, layers, effects, jobs>>
  /\ UNCHANGED sideVars

TermNext ==
  \/ rodCall
  \/ rodProbe
  \/ rodOsascript
  \/ rodCallQueued
  \/ rodProbeQueued
  \/ rodListener
  \/ rodAwait
  \/ listenerStep
  \/ childNeverExits
  \/ HostStart

\* the handlers of 'close' and 'error' run once the child has ended, and the
\* poll loop goes on, whatever else happens
TermSpec ==
  Init /\ [][TermNext]_vars
       /\ WF_vars(rodProbe) /\ WF_vars(rodProbeQueued) /\ WF_vars(rodOsascript)
       /\ WF_vars(rodListener) /\ WF_vars(rodAwait)

(* ------------------------ installer: the runs ------------------------- *)
\* the user runs the installer; nothing else touches the preference trees
installUnifiedBridge ==
  /\ Len(inst) < MaxRuns
  /\ LET run == InstallRun(fsys)
     IN  /\ fsys' = run.fs
         /\ inst' = Append(inst, [result |-> run.result, written |-> run.written,
                                  tried |-> run.tried, before |-> fsys])
  /\ UNCHANGED bridgeVars
  /\ UNCHANGED <<calc, wr, ru, pl>>

InstallInit ==
  /\ BridgeInit
  /\ fsys \in Filesystems
  /\ inst = <<>>
  /\ calc = NoCalc
  /\ wr = NoWrite
  /\ ru = NoRecent
  /\ pl = NoPlayer

InstallNext == installUnifiedBridge

InstallSpec == InstallInit /\ [][InstallNext]_vars

(* ------------- queueCommand's write, seen by the consumer ------------- *)
\* contents long enough for a write to be seen half done
WriteContents == {<<"a">>, <<"a", "a">>}

\* fs.writeFileSync(cmdFile, content + "\n") begins: the file is opened for
\* writing under its final name, which creates it, or truncates it, empty
qcOpen ==
  /\ ~wr.busy
  /\ \E content \in WriteContents, fileExtension \in Exts, rnd \in 1..MaxRand :
       LET fileName == FileName(now, rnd, fileExtension)
           opened == [n \in (DOMAIN dir) \cup {fileName} |->
                        IF n = fileName
                        THEN [content |-> <<>>, modified |-> now]
                        ELSE dir[n]]
       IN  /\ Cardinality(QueueFiles(opened)) <= MaxQueue
           /\ dir' = opened
           /\ effects' = Restrict(effects, (DOMAIN effects) \ {fileName})
           /\ wr' = [busy |-> TRUE, name |-> fileName, whole |-> Encode(content),
                    rest |-> Encode(content)]
  /\ last' = Did("writeFileSync", dir)
  /\ UNCHANGED <<now, host, ui, bins, footage, layers, jobs, rod>>
  /\ UNCHANGED <<fsys, inst, calc, ru, pl>>

\* writeFileSync goes on: write(2) takes some or all of what is left, and
\* the call returns once nothing is left; a file the consumer has removed
\* in between is written to without coming back into the directory
qcWrite ==
  /\ wr.busy
  /\ \E k \in 1..Len(wr.rest) :
       /\ dir' = IF wr.name \in DOMAIN dir
                 THEN [dir EXCEPT ![wr.name] =
                         [content |-> @.content \o SubSeq(wr.rest, 1, k),
                          modified |-> now]]
                 ELSE dir
       /\ wr' = IF k = Len(wr.rest) THEN NoWrite
                ELSE [wr EXCEPT !.rest = SubSeq(wr.rest, k + 1, Len(wr.rest))]
  /\ last' = Did("writeFileSync", dir)
  /\ UNCHANGED <<now, host, ui, bins, footage, layers, effects, jobs, rod>>
  /\ UNCHANGED <<fsys, inst, calc, ru, pl>>

\* a producer writing a queue file while the host's scheduled task fires
WriteNext ==
  \/ qcOpen
  \/ qcWrite
  \/ HostStart
  \/ rbProcessNoFault
  \/ UserAction

WriteSpec == Init /\ [][WriteNext]_vars

(* ------------------------ the recently-used list --------------------- *)
\* the files of the list shown to the user
Previews == {"a", "b"}

\* s.slice(0, n)
Take(s, n) == SubSeq(s, 1, IF Len(s) < n THEN Len(s) ELSE n)

\* [filePath, ...recentlyUsed.filter((f) => f !== filePath)].slice(0, 10)
NextRecent(recentlyUsed, filePath) ==
  LET Other(f) == f # filePath
  IN  Take(<<filePath>> \o SelectSeq(recentlyUsed, Other), RecentMax)

\* one call of addToRecentlyUsed(filePath) by a handler whose closure holds
\* recentlyUsed: setRecentlyUsed(next); LocalStorage.setItem(..., next)
Recorded(r, recentlyUsed, filePath) ==
  [r EXCEPT !.state = NextRecent(recentlyUsed, filePath),
            !.stored = NextRecent(recentlyUsed, filePath),
            !.calls = Append(@, filePath)]

\* sendViaBridge has imported filePath and calls addToRecentlyUsed(filePath);
\* the handler is the one of the latest render
addToRecentlyUsed ==
  /\ ru.batch = <<>>
  /\ Len(ru.calls) < MaxCalls
  /\ \E filePath \in Previews : ru' = Recorded(ru, ru.state, filePath)
  /\ UNCHANGED bridgeVars
  /\ UNCHANGED <<fsys, inst, calc, wr, pl>>

\* sendAllFilteredToAE has imported the filtered items and reaches its second
\* loop; the function, and the addToRecentlyUsed it calls, are those of the
\* render in which the user invoked it
sendAllFilteredToAE ==
  /\ ru.batch = <<>>
  /\ \E filtered \in Listings(Previews) \cup {<<f>> : f \in Previews} :
       /\ Len(ru.calls) + Len(filtered) <= MaxCalls
       /\ ru' = [ru EXCEPT !.batch = filtered, !.closure = ru.state]
  /\ UNCHANGED bridgeVars
  /\ UNCHANGED <<fsys, inst, calc, wr, pl>>

\* for (const it of filtered) { await addToRecentlyUsed(it.path); }: one turn
batchAdd ==
  /\ ru.batch # <<>>
  /\ ru' = [Recorded(ru, ru.closure, Head(ru.batch)) EXCEPT !.batch = Tail(ru.batch)]
  /\ UNCHANGED bridgeVars
  /\ UNCHANGED <<fsys, inst, calc, wr, pl>>

RecentNext ==
  \/ addToRecentlyUsed
  \/ sendAllFilteredToAE
  \/ batchAdd

RecentSpec == Init /\ [][RecentNext]_vars

(* ---------------------------- audio preview ---------------------------- *)
\* playerRef.current.kill("SIGTERM"): a running process is signalled; its
\* 'exit' event comes later
Kill(procs, pid) ==
  IF pid # 0 /\ procs[pid].st = "running"
  THEN [procs EXCEPT ![pid].st = "killed"]
  ELSE procs

\* stopPlayback(): clear the stop timer, kill the process of playerRef,
\* playerRef.current = null, setCurrentlyPlaying(null)
stopPlayback(p) ==
  [p EXCEPT !.stopTimer = FALSE,
            !.procs = Kill(@, p.player),
            !.player = 0,
            !.playing = ""]

\* playPreview(filePath): spawn afplay, playerRef.current = the new process,
\* setCurrentlyPlaying(filePath); nothing is stopped first
playPreview(p, filePath) ==
  [p EXCEPT !.procs = Append(@, [path |-> filePath, st |-> "running"]),
            !.player = Len(p.procs) + 1,
            !.playing = filePath]

\* togglePlayback(filePath): stop when filePath is the one playing, else play
togglePlayback ==
  /\ \E filePath \in Previews :
       IF pl.playing = filePath
       THEN pl' = stopPlayback(pl)
       ELSE /\ Len(pl.procs) + Len(pl.starts) < MaxProcs
            /\ pl' = playPreview(pl, filePath)
  /\ UNCHANGED bridgeVars
  /\ UNCHANGED <<fsys, inst, calc, wr, ru>>

\* the effect on [selectedId, autoplayEnabled] with autoplay on: clear the stop
\* timer, kill the process of playerRef, setCurrentlyPlaying(null) and arm
\* the 100 ms timer that will play the selected item
autoplaySelection ==
  /\ Len(pl.procs) + Len(pl.starts) < MaxProcs
  /\ \E selectedId \in Previews :
       pl' = [stopPlayback(pl) EXCEPT !.starts = Append(@, selectedId)]
  /\ UNCHANGED bridgeVars
  /\ UNCHANGED <<fsys, inst, calc, wr, ru>>

\* the 100 ms timer fires: playPreview(item.path), stopTimerRef.current =
\* setTimeout(stopPlayback, 8000); a timer stopTimerRef held stays armed
autoplayStart ==
  /\ pl.starts # <<>>
  /\ pl' = [playPreview(pl, Head(pl.starts)) EXCEPT
              !.starts = Tail(@),
              !.stopTimer = TRUE,
              !.orphans = IF pl.stopTimer THEN @ + 1 ELSE @]
  /\ UNCHANGED bridgeVars
  /\ UNCHANGED <<fsys, inst, calc, wr, ru>>

\* an 8 s timer fires and calls stopPlayback(): the one stopTimerRef holds or
\* one it no longer holds
autoplayStop ==
  /\ \/ /\ pl.stopTimer
        /\ pl' = stopPlayback(pl)
     \/ /\ pl.orphans > 0
        /\ pl' = [stopPlayback(pl) EXCEPT !.orphans = @ - 1]
  /\ UNCHANGED bridgeVars
  /\ UNCHANGED <<fsys, inst, calc, wr, ru>>

\* the 'exit' event of a process, one that played to its end or one that was
\* killed: playerRef.current = null; setCurrentlyPlaying(null)
playerExit ==
  /\ \E pid \in DOMAIN pl.procs :
       /\ pl.procs[pid].st \in {"running", "killed"}
       /\ pl' = [pl EXCEPT !.procs[pid].st = "exited",
                           !.player = 0,
                           !.playing = ""]
  /\ UNCHANGED bridgeVars
  /\ UNCHANGED <<fsys, inst, calc, wr, ru>>

PlayNext ==
  \/ togglePlayback
  \/ autoplaySelection
  \/ autoplayStart
  \/ autoplayStop
  \/ playerExit

PlaySpec == Init /\ [][PlayNext]_vars

(* --------------- the path embedded in a synthesized script ------------ *)
\* the characters of a path: a plain one and those a quoted literal can
\* trip over (backslash, single quote, double quote, newline, carriage return)
PathChars == {"a", "\\", "'", "\"", "\n", "\r"}

AudioPaths == SeqsUpTo(PathChars, MaxLen)

\* input.replace(/c/g, by)
RECURSIVE ReplaceAll(_, _, _)
ReplaceAll(input, c, by) ==
  IF input = <<>> THEN <<>>
  ELSE (IF Head(input) = c THEN by ELSE <<Head(input)>>) \o ReplaceAll(Tail(input), c, by)

\* escapeForJsSingleQuotedString(input), and the same two replacements
\* written out in runOnDemand:
\*   input.replace(/\\/g, "\\\\").replace(/'/g, "\\'")
escapeForJsSingleQuotedString(input) ==
  ReplaceAll(ReplaceAll(input, "\\", <<"\\", "\\">>), "'", <<"\\", "'">>)

\* what the host reads in  '<body>'  where the script has
\* new File('${escapedPath}') or var p='${pathForExt}': the string the
\* literal denotes, or no string at all when the literal is cut short by a
\* bare quote or a line terminator; value: what was read up to there
RECURSIVE ReadLiteral(_, _)
ReadLiteral(body, acc) ==
  IF body = <<>> THEN [ok |-> TRUE, value |-> acc]
  ELSE IF Head(body) = "\\"
       THEN IF Len(body) = 1 THEN [ok |-> FALSE, value |-> acc]
            ELSE IF body[2] \in {"\n", "\r"}
                 THEN ReadLiteral(SubSeq(body, 3, Len(body)), acc)
                 ELSE ReadLiteral(SubSeq(body, 3, Len(body)), Append(acc, body[2]))
  ELSE IF Head(body) \in {"'", "\n", "\r"} THEN [ok |-> FALSE, value |-> acc]
  ELSE ReadLiteral(Tail(body), Append(acc, Head(body)))

(* ------------------- pure functions, applied to inputs ---------------- *)
\* queueCommand writes the content and rbProcess reads it back
roundTrip ==
  /\ calc.fn = "codec" /\ ~calc.done
  /\ calc' = [calc EXCEPT !.done = TRUE,
                          !.out = [file |-> Encode(calc.arg),
                                   content |-> Decode(Encode(calc.arg))]]
  /\ UNCHANGED bridgeVars
  /\ UNCHANGED <<fsys, inst, wr, ru, pl>>

\* isAERunning is called and the child process behaves as calc.arg says
probe ==
  /\ calc.fn = "probe" /\ ~calc.done
  /\ calc' = [calc EXCEPT !.done = TRUE, !.out = isAERunningOutcome(calc.arg)]
  /\ UNCHANGED bridgeVars
  /\ UNCHANGED <<fsys, inst, wr, ru, pl>>

\* a script is synthesized for the path calc.arg and read by the host
embedPath ==
  /\ calc.fn = "escape" /\ ~calc.done
  /\ calc' = [calc EXCEPT
                !.done = TRUE,
                !.out = ReadLiteral(escapeForJsSingleQuotedString(calc.arg), <<>>)]
  /\ UNCHANGED bridgeVars
  /\ UNCHANGED <<fsys, inst, wr, ru, pl>>

FunctionsInit ==
  /\ BridgeInit
  /\ fsys = NoFsys
  /\ inst = <<>>
  /\ calc \in {[NoCalc EXCEPT !.fn = "codec", !.arg = c] : c \in Contents}
             \cup {[NoCalc EXCEPT !.fn = "probe", !.arg = o] : o \in ProbeOutcomes}
             \cup {[NoCalc EXCEPT !.fn = "escape", !.arg = a] : a \in AudioPaths}
  /\ wr = NoWrite
  /\ ru = NoRecent
  /\ pl = NoPlayer

FunctionsNext ==
  \/ roundTrip
  \/ probe
  \/ embedPath

FunctionsSpec == FunctionsInit /\ [][FunctionsNext]_vars

(* ====================== claims about the consumer ===================== *)
ConsumerOp == last.op \in {"startup", "tick"}
StopBefore == StopName \in DOMAIN last.pre

\* the files the next tick may select, whatever order getFiles lists them in
Selectable(d) ==
  {Batch(Items(c, "cmd") \o Items(j, "jsx"))[1].file :
     <<c, j>> \in {x \in Listings(GetFiles(d, "cmd")) \X Listings(GetFiles(d, "jsx")) :
                    Len(x[1]) + Len(x[2]) > 0}}

\* C1: while STOP_BRIDGE.txt exists, neither the startup code nor a tick of
\* the consumer script changes the queue directory or reads a queue file.
C1_StopFlagFreezesConsumer ==
  (ConsumerOp /\ StopBefore) =>
     /\ dir = last.pre
     /\ last.read = {}
     /\ last.dispatched = {}

\* C2: no operation of the consumer script and no producer operation removes
\* or alters STOP_BRIDGE.txt; a flag present before the operation is present,
\* unchanged, after it.
C2_StopFlagOnlyRemovedByOperator ==
  (last.op \in {"startup", "tick", "queueCommand"} /\ StopBefore) =>
     /\ StopName \in DOMAIN dir
     /\ dir[StopName] = last.pre[StopName]

\* C3: a tick that runs while the active composition has selected layers
\* reads, dispatches and removes nothing: the queue directory is the same
\* before and after the tick.
C3_SelectionTickLeavesQueue ==
  (last.op = "tick" /\ ui = "selected") =>
     /\ dir = last.pre
     /\ last.read = {}
     /\ last.dispatched = {}
     /\ last.removed = {}

C3_Witness ==
  /\ last.op = "tick"
  /\ ui = "selected"
  /\ StopName \notin DOMAIN last.pre
  /\ \E n \in QueueFiles(last.pre) : Strip(last.pre[n].content) # <<>>
  /\ last.exit = "selection"

\* C4: after a tick that ran with no Stop Flag and no selection, no queue
\* file older than 5 minutes is left in the queue directory.
C4_TickRemovesOldFiles ==
  (last.op = "tick" /\ ~StopBefore /\ ui # "selected") =>
     \A n \in QueueFiles(dir) : Age(dir, n, now) <= maxAge

\* C5: when the read of the selected file fails or its dispatch throws, the
\* exception is caught inside rbProcess, the file is still in the queue with
\* the same content after the tick, and it is again a file the next tick may
\* select.
C5_FailedJobKept ==
  Failed(last) =>
     /\ ~last.escaped
     /\ last.removed = {}
     /\ \A f \in last.sel :
          /\ f \in DOMAIN dir
          /\ dir[f] = last.pre[f]
          /\ f \in Selectable(dir)

\* a failed job is dispatched again by the following tick and fails again
C5_Witness ==
  /\ Failed(last)
  /\ last.exit = "threw"
  /\ last.retry # {}
  /\ last.retry = last.sel

\* C6: one tick reads at most one queue file, dispatches at most one and
\* removes at most one, however many files the queue holds.
C6_SingleFlight ==
  last.op = "tick" =>
     /\ Cardinality(last.sel) <= 1
     /\ Cardinality(last.read) <= 1
     /\ Cardinality(last.dispatched) <= 1
     /\ Cardinality((DOMAIN last.pre) \ (DOMAIN dir)) <= 1

C6_Witness ==
  /\ last.op = "tick"
  /\ Cardinality(QueueFiles(last.pre)) >= 2
  /\ Cardinality(last.dispatched) = 1
  /\ Cardinality((DOMAIN last.pre) \ (DOMAIN dir)) = 1

\* C7: the side effect of a queue file (its media imported, its script
\* evaluated) completes at most once in the host.
C7_AtMostOnce ==
  \A n \in DOMAIN effects : effects[n] <= 1

\* every name queueCommand can give a queue file
QueueNames == {FileName(t, r, e) : t \in 0..MaxTime, r \in 1..MaxRand, e \in Exts}

Calm == host = "on" /\ StopName \notin DOMAIN dir /\ ui # "selected"

Stale(n) == n \in DOMAIN dir /\ Age(dir, n, now) > maxAge

\* C8: while the host lives and ticks fire with no Stop Flag and no selection,
\* every queue file is eventually removed, by its processing or by the TTL
\* sweep: no file stays in the queue for ever once it is older than 5 minutes.
\* (The clock stops at MaxTime; a file that is not yet 5 minutes old then is
\* not held against the claim. Only behaviours in which the task can go on
\* firing for ever are considered.)
C8_QueueDrains ==
  ((<>[]Calm) /\ <>[](ENABLED rbProcessNoFault)) =>
     \A n \in QueueNames : []<>(~Stale(n))

\* nothing the tick asked of the filesystem or the host failed
NoFailure(obs) ==
  /\ obs.read # "fail"
  /\ obs.import \notin {"null", "throw"}
  /\ obs.add \notin {"addthrow", "timethrow"}
  /\ obs.rm # "fail"

\* C9: a tick that finds a single audio-import job in the queue, with an
\* active composition, no selection, no Stop Flag and no failure of the read,
\* the import, the layer creation or the removal, leaves an 'Audio' folder in
\* the project, a layer of the active composition referencing the media, and
\* no queue file.
C9_AudioImportScenario ==
  \A f \in QueueFiles(last.pre) :
    ( /\ last.op = "tick"
      /\ QueueFiles(last.pre) = {f}
      /\ f.ext = "cmd"
      /\ Strip(last.pre[f].content) # <<>>
      /\ ~StopBefore
      /\ ui = "comp"
      /\ NoFailure(last.obs) )
    => /\ bins >= 1
       /\ Count(layers, Strip(last.pre[f].content)) >= 1
       /\ Count(footage, Strip(last.pre[f].content)) >= 1
       /\ f \notin DOMAIN dir

C9_Witness ==
  /\ last.op = "tick"
  /\ ui = "comp"
  /\ \E f \in last.removed : f.ext = "cmd" /\ QueueFiles(last.pre) = {f}
  /\ bins = 1
  /\ QueueFiles(dir) = {}

(* ======================= claims about runOnDemand ===================== *)
\* C10: runOnDemand with a run_jsx_text command, probed while the host is not
\* running, ends with the not-running error, and the jobs directory holds no
\* file it did not hold before the call: no rb_<id>_direct.jsx, no descriptor.
C10_NotRunningLeavesNoFile ==
  (rod.pc = "done" /\ rod.cmd.action = "run_jsx_text" /\ rod.hostAtProbe = "off") =>
     /\ rod.result = "not-running"
     /\ jobs = rod.jobsBefore
     /\ rod.jsxPath = {}

C10_Witness ==
  /\ rod.pc = "done"
  /\ rod.cmd.action = "run_jsx_text"
  /\ rod.hostAtProbe = "off"
  /\ rod.result = "not-running"

\* the entry points that deliver a command to a host that is running
Deliveries == {"runOnDemand", "sendViaBridge", "sendToAfterEffects"}

\* C11: no step of a direct delivery (runOnDemand, sendViaBridge,
\* sendToAfterEffects) starts the host, also when the host exits between the
\* liveness probe and the osascript call; only ensureAfterEffectsRunning and
\* the restart fallback launch it.
C11_DeliveryNeverLaunches ==
  rod.entry \in Deliveries => ~rod.launched

\* C12: when its liveness probe reports the host as running, the restart
\* fallback does not issue `open -b com.adobe.AfterEffects --args -r <script>`;
\* it shows a failure toast instead.
C12_RestartRefusesWhenRunning ==
  (rod.entry = "sendToAfterEffectsViaRestart" /\ rod.pc = "done" /\ rod.saidRunning) =>
     /\ ~rod.opened
     /\ ~rod.launched
     /\ Toast("failure", "Close After Effects and retry") \in rod.toasts
     /\ \A t \in rod.toasts : t.style # "success"

C12_Witness ==
  /\ rod.entry = "sendToAfterEffectsViaRestart"
  /\ rod.pc = "done"
  /\ rod.saidRunning
  /\ rod.hostAtProbe = "on"
  /\ host = "on"
  /\ rod.result = "refused"

(* ================ claims about the queued path's await ================ *)
\* the runOnDemand call has just returned or thrown
JustFinished == rod.pc = "done" /\ last.op = "runOnDemand"

\* C13: a queued runOnDemand whose await loop read no parsable artifact
\* before the 5000 ms deadline throws the timeout error, and when it does the
\* descriptor rb_<id>.json is gone while nothing else in the jobs directory
\* is touched: an artifact that is there, or arrives later, stays.
C13_TimeoutDeletesDescriptor ==
  (rod.pc = "done" /\ rod.awaited /\ rod.readFrom = "") =>
     /\ rod.result = "timeout"
     /\ rod.elapsed >= deadlineMs
     /\ Descriptor(rod.id) \notin jobs
     /\ JustFinished => jobs = rod.jobsAtExit \ {Descriptor(rod.id)}

\* the call timed out with its descriptor still there, and the artifact was
\* written afterwards
C13_Witness ==
  /\ rod.result = "timeout"
  /\ Descriptor(rod.id) \in rod.jobsAtExit
  /\ FilesOf(rod.jobsAtExit, rod.id) = {Descriptor(rod.id)}
  /\ Artifact(rod.id) \in jobs

\* C14: when the await loop returns a parsed result, the descriptor
\* rb_<id>.json, the artifact rb_<id>.done.json and, if the result was read
\* from it, the artifact's .tmp variant are all gone, whether the artifact was
\* read from its final path or its .tmp path and whether or not the
\* descriptor was still there.
C14_SuccessDeletesBoth ==
  (JustFinished /\ rod.awaited /\ rod.result = "ok") =>
     /\ Descriptor(rod.id) \notin jobs
     /\ Artifact(rod.id) \notin jobs
     /\ rod.readFrom = "tmp" => ArtifactTmp(rod.id) \notin jobs

(* ==================== claims about the producer's ids ================= *)
\* C15: every successful queueCommand creates a file of its own: it adds one
\* file to the queue directory and replaces none that an earlier submission
\* wrote, also when several submissions fall in the same millisecond.
C15_DistinctFiles ==
  (last.op = "queueCommand" /\ last.ret) =>
     /\ DOMAIN last.pre \subseteq DOMAIN dir
     /\ Cardinality(DOMAIN dir) = Cardinality(DOMAIN last.pre) + 1
     /\ \A n \in DOMAIN last.pre : dir[n] = last.pre[n]

(* ================== claims about the encoding of commands ============= *)
\* C16: for every content passed to queueCommand, the content rbProcess
\* obtains from the file queueCommand writes (read, trailing whitespace
\* stripped) is exactly that content, also when it ends in whitespace or is
\* empty.
C16_RoundTrip ==
  (calc.fn = "codec" /\ calc.done) => calc.out.content = calc.arg

(* ====================== claims about the installer ==================== *)
\* the (base, version) pairs whose Startup directory holds the bridge script
Installed(fs) == {<<b, v>> \in Bases \X SeedVersions : TargetName \in fs[b].scripts[v]}

\* C17: of two consecutive runs of installUnifiedBridge on the same
\* filesystem, the second returns the installCount of the first, leaves one
\* RaycastBridge.jsx and nothing else in every Startup directory written, and
\* leaves the set of version directories as the first run left it.
C17_InstallIdempotent ==
  \A i \in 1..Len(inst) :
    i > 1 =>
      /\ inst[i].result.installCount = inst[i - 1].result.installCount
      /\ inst[i].result.success = inst[i - 1].result.success
      /\ \A bv \in inst[i].written \cup inst[i - 1].written :
           fsys[bv[1]].scripts[bv[2]] = {TargetName}
      /\ VersionDirs(inst[i].before) = VersionDirs(fsys)

\* the first run seeded version directories and wrote scripts, and a second
\* run followed
C17_Witness ==
  /\ Len(inst) >= 2
  /\ VersionDirs(inst[1].before) # VersionDirs(inst[2].before)
  /\ inst[2].result.installCount >= 1
  /\ inst[2].result.installCount < Cardinality(inst[2].tried)

\* C18: a run of installUnifiedBridge returns success = true exactly when at
\* least one script was written, with installCount the number of (base,
\* version) pairs whose Startup directory now holds the script; when every
\* write fails it returns success = false and installCount = 0.
C18_InstallReport ==
  inst # <<>> =>
    LET r == inst[Len(inst)]
        n == Cardinality(Installed(fsys))
    IN  /\ r.result.installCount = n
        /\ r.result.success <=> (n > 0)
        /\ (n = 0) => (~r.result.success /\ r.result.installCount = 0)

\* every write of a run failed
C18_Witness ==
  /\ inst # <<>>
  /\ inst[Len(inst)].tried # {}
  /\ Installed(fsys) = {}
  /\ ~inst[Len(inst)].result.success
  /\ inst[Len(inst)].result.installCount = 0

(* =================== claims about the liveness probe ================== *)
\* the output is the word true, with nothing but whitespace around it
PrintsTrue(out) ==
  \E i \in 0..Len(out) :
    /\ Len(out) >= i + 4
    /\ SubSeq(out, i + 1, i + 4) = <<"t", "r", "u", "e">>
    /\ \A k \in 1..Len(out) : (k <= i \/ k > i + 4) => IsSpace(out[k])

\* C19: isAERunning never throws, and returns true exactly when the probe
\* process was spawned, exited with status 0 and printed 'true'; a spawn
\* error, a non-zero exit or any other output yields false.
C19_ProbeFailClosed ==
  (calc.fn = "probe" /\ calc.done) =>
     /\ ~calc.out.threw
     /\ calc.out.value <=>
          (calc.arg.spawn = "ok" /\ calc.arg.code = 0 /\ PrintsTrue(calc.arg.stdout))

\* the process printed 'true' but could not be spawned or exited non-zero
C19_Witness ==
  /\ calc.fn = "probe" /\ calc.done
  /\ PrintsTrue(calc.arg.stdout)
  /\ calc.arg.spawn = "error" \/ calc.arg.code # 0
  /\ ~calc.out.value
  /\ ~calc.out.threw

(* ================= claims about the reporting of failures ============= *)
\* the ways a delivery fails
DeliveryFailures == {"not-running", "applescript-failed", "io-error", "timeout"}

\* the titles of the failure toasts shown by the call
FailureTitles(r) == {t.title : t \in {x \in r.toasts : x.style = "failure"}}

\* the failure toasts of the user interface that name each kind of failure
TitlesOf(kind) ==
  CASE kind = "not-running" -> {"Open After Effects first"}
    [] kind = "applescript-failed" -> {"After Effects did not accept AppleScript",
                                        "AppleScript failed to start"}
    [] OTHER -> {}

\* C20: a delivery started from the user interface (sendViaBridge,
\* sendToAfterEffects) that fails shows the user a failure message, which is
\* not the generic "Error", is not a message used for another kind of
\* failure, and is not accompanied by a success message.
C20_FailuresReported ==
  (rod.pc = "done" /\ rod.entry \in {"sendViaBridge", "sendToAfterEffects"}
     /\ rod.result \in DeliveryFailures) =>
     /\ FailureTitles(rod) # {}
     /\ "Error" \notin FailureTitles(rod)
     /\ \A k \in DeliveryFailures \ {rod.result} : FailureTitles(rod) \cap TitlesOf(k) = {}
     /\ \A t \in rod.toasts : t.style # "success"

\* C21: a runOnDemand call that went through the direct path (its DoScriptFile
\* child has ended) returns ok exactly when the child exited with status 0,
\* whether or not the script did its work in the host, and throws when the
\* child exited with another status or could not be spawned; the call wrote
\* no artifact, awaited none and read none.
C21_DirectResultIsExitStatus ==
  (rod.pc = "done" /\ rod.osa # "") =>
     /\ (rod.result = "ok") <=> (rod.osa = "exit0")
     /\ rod.osa \in {"nonzero", "error"} => rod.result = "applescript-failed"
     /\ ~rod.awaited
     /\ rod.readFrom = ""
     /\ \A f \in jobs \ rod.jobsBefore : f.kind \notin {"done.json", "done.json.tmp"}

\* the child exited with status 0, the script failed inside the host, and
\* the call returned ok
C21_Witness ==
  /\ rod.pc = "done"
  /\ rod.entry = "runOnDemand"
  /\ rod.osa = "exit0"
  /\ ~rod.scriptOk
  /\ rod.result = "ok"

\* C22: a tick never reads a queue file whose write is still in progress:
\* every file the consumer finds under a final name (*.cmd, *.jsx) holds the
\* whole of what its producer is writing, never an empty or partial content.
C22_NoPartialRead ==
  last.op = "tick" =>
     \A f \in last.read :
        (wr.busy /\ wr.name = f) => last.pre[f].content = wr.whole

(* ================== claims about producer and consumer ================ *)
\* C23: a queueCommand whose queue directory cannot be created or written
\* ends with an error thrown to its caller, not with a value returned; it
\* made its one attempt and left the queue directory as it was.
C23_WriteFailureThrown ==
  (last.op = "queueCommand" /\ last.obs.write = "fail") =>
     /\ last.escaped
     /\ dir = last.pre

\* C24: every call of runOnDemand ends: once started, it eventually returns
\* or throws, even when a child process it spawned never exits.
C24_CallEnds ==
  (rod.pc \notin {"idle", "done"}) ~> (rod.pc = "done")

\* C25: the file a tick selects is the oldest queue file: no queue file of
\* either kind, *.cmd or *.jsx, has an earlier modification time than the
\* selected one.
C25_OldestFirst ==
  last.op = "tick" =>
     \A f \in last.sel, g \in QueueFiles(last.pre) :
        last.pre[f].modified <= last.pre[g].modified

\* the dispatch of queue file f succeeded in the tick recorded in l
DispatchSucceeded(l, f) ==
  /\ l.op = "tick"
  /\ f \in l.dispatched
  /\ l.exit = "done"
  /\ f.ext = "cmd" => (l.obs.import = "ok" /\ l.obs.add = "ok")
  /\ f.ext = "jsx" => l.obs.eval = "ok"

\* C26: a queue file that the startup code or a tick of the consumer script
\* removes either was dispatched successfully in that tick or was older than
\* 5 minutes.
C26_DeletedOnlyIfDoneOrOld ==
  ConsumerOp =>
     \A f \in QueueFiles(last.pre) \ DOMAIN dir :
        \/ DispatchSucceeded(last, f)
        \/ Age(last.pre, f, now) > maxAge

\* the startup sweep removes an old queue file and keeps a young one
C26_Witness ==
  /\ last.op = "startup"
  /\ \E f \in QueueFiles(last.pre) \ DOMAIN dir : Age(last.pre, f, now) > maxAge
  /\ \E g \in QueueFiles(dir) : Age(dir, g, now) <= maxAge

\* C27: no tick returns with an undo group open: every app.beginUndoGroup of
\* the tick was followed by an app.endUndoGroup, whether the import
\* succeeded, returned nothing or threw, and whether eval returned or threw.
C27_UndoGroupClosed ==
  last.op = "tick" => last.undo = 0

\* C28: a tick that dispatches an audio import with a project open and no
\* active composition, whose import succeeds, leaves the media under the
\* 'Audio' folder and (unless the removal itself fails) removes the queue
\* file.
C28_ImportWithoutComp ==
  \A f \in last.dispatched :
    (last.op = "tick" /\ f.ext = "cmd" /\ ui = "noitem" /\ last.obs.import = "ok")
    => /\ bins >= 1
       /\ Count(footage, Strip(last.pre[f].content)) >= 1
       /\ last.obs.rm = "fail" \/ f \notin DOMAIN dir

\* C29: however many times an audio import for a path was dispatched, the
\* project holds one 'Audio' folder at most and one footage item for the
\* path at most.
C29_ImportIdempotent ==
  /\ bins <= 1
  /\ \A p \in DOMAIN footage : footage[p] <= 1

\* C30: the Consumer Loop has no terminal state while the host lives: nothing
\* thrown inside a tick leaves rbProcess, the scheduled task can fire in
\* every state in which the host runs, and in a behaviour in which the host
\* runs for ever the tick fires again and again.
C30_LoopNeverEnds ==
  /\ [](last.op = "tick" => ~last.escaped)
  /\ [](host = "on" => ENABLED rbProcess)
  /\ (<>[](host = "on")) => []<><<rbProcess>>_vars

\* a tick in which the read or the dispatch threw, fired right after another
\* tick, and which is followed by a state in which the task can fire again
C30_Witness ==
  /\ last.op = "tick"
  /\ last.phase = 1
  /\ Failed(last)
  /\ ~last.escaped
  /\ ENABLED rbProcess

(* ============== claims about scripts, toasts and the command ========== *)
\* C31: for every audio path, the single-quoted literal that runOnDemand and
\* sendToAfterEffects build from it is read by the host as a string, and
\* that string is the path.
C31_LiteralDenotesPath ==
  (calc.fn = "escape" /\ calc.done) =>
     calc.out = [ok |-> TRUE, value |-> calc.arg]

C33_TempScriptRemoved ==
  (rod.pc = "done" /\ rod.osa # ""
     /\ rod.cmd.action \in {"import_audio", "run_jsx_text"}) =>
     rod.jsxPath \cap jobs = {}

\* C34: no step of a runOnDemand call for a run_jsx_file command creates or
\* deletes the caller's script: the file at cmd.path is there after the step
\* exactly if it was there when the call began.
C34_CallerScriptUntouched ==
  (last.op = "runOnDemand" /\ rod.cmd.action = "run_jsx_file") =>
     (UserScript \in jobs <=> UserScript \in rod.jobsBefore)

\* the caller's script has been run by the direct path and is still there
C34_Witness ==
  /\ last.op = "runOnDemand"
  /\ rod.pc = "done"
  /\ rod.cmd.action = "run_jsx_file"
  /\ rod.jsxPath = {UserScript}
  /\ rod.result = "ok"
  /\ UserScript \in jobs

\* C35: when sendToAfterEffects or sendToAfterEffectsViaRestart is over (the
\* timer of the restart path included), the temporary add-audio.jsx the call
\* wrote has been deleted, whichever way the call went: host running, host
\* not running, launch issued.
C35_TempScriptDeleted ==
  (rod.pc = "done"
     /\ rod.entry \in {"sendToAfterEffects", "sendToAfterEffectsViaRestart"}) =>
     rod.tmp = "removed"

\* C36: sendToAfterEffects shows 'Queued for After Effects' only if the
\* runOnDemand call made through sendViaBridge returned ok.
C36_QueuedOnlyOnSuccess ==
  (rod.pc = "done" /\ rod.entry = "sendToAfterEffects" /\ Queued \in rod.toasts) =>
     rod.result = "ok"

(* ===================== claims about the list view ===================== *)
\* the distinct paths of calls, the most recently passed first
RECURSIVE NewestFirst(_)
NewestFirst(calls) ==
  IF calls = <<>> THEN <<>>
  ELSE LET p == calls[Len(calls)]
           Other(f) == f # p
       IN  <<p>> \o NewestFirst(SelectSeq(SubSeq(calls, 1, Len(calls) - 1), Other))

\* C37: after any sequence of addToRecentlyUsed calls, those made one after
\* the other by sendAllFilteredToAE included, the stored recently-used list
\* is the distinct paths passed so far, newest first, cut to 10 entries.
C37_RecentlyUsedList ==
  ru.stored = Take(NewestFirst(ru.calls), RecentMax)

\* the preview processes that are alive
LivePreviews == {pid \in DOMAIN pl.procs : pl.procs[pid].st = "running"}

\* C38: whatever the order of togglePlayback, autoplay selection changes,
\* stopPlayback and 'exit' events, at most one preview process is alive, and
\* currentlyPlaying is the path of the live process, null when there is none.
C38_OnePreviewAtATime ==
  /\ Cardinality(LivePreviews) <= 1
  /\ LivePreviews = {} => pl.playing = ""
  /\ \A pid \in LivePreviews : pl.playing = pl.procs[pid].path

====
